---------------------------- MODULE Spec2Model ----------------------------
(* A model of daisy/dAISy_pub_sub.py: the poll loop DAISyPubSub.main, the  *)
(* sentence reassembly it does on the lines of each serial chunk, and      *)
(* DAISyPubSub.process_serial_payload (raw publish, decode, normalize,     *)
(* decoded publish).                                                       *)
(*                                                                         *)
(* Text is a sequence of one-character strings.  The carriage return and   *)
(* the line feed are written CR and LF, and XFF is a byte that is not      *)
(* valid UTF-8.  A Python float is modelled by the exact rational it       *)
(* denotes, a pair <<numerator, denominator>> in lowest terms.             *)
EXTENDS Integers, Sequences, FiniteSets, TLC

VARIABLES
    status,             \* "running" | "exited" (sys.exit) | "crashed" (uncaught exception)
    pc,                 \* position of the single thread inside main
    serial_open,        \* self.serial is open
    payload_beginning,  \* main's local, set at line 275, read at 303/306, cleared at 308
    payload_beginng,    \* main's local created by the assignment at line 301
    serial_bytes,       \* main's local: the chunk read at line 281
    serial_payloads,    \* main's local: the lines of the chunk (line 289)
    iter,               \* number of iterations of the for loop at line 290 already started
    via,                \* call site of process_serial_payload: "complete" (293) | "end" (305)
    binary_payload,     \* argument of process_serial_payload
    decoded_payload,    \* process_serial_payload's local
    processed_payload,  \* process_serial_payload's local
    trace,              \* history: publish attempts, decode attempts, log records, in order
    emitted,            \* history: the arguments of the calls of process_serial_payload
    origin,             \* history: per emitted sentence, <<chunk number, line number>> of its last line
    fed,                \* history: the chunks read so far
    taken,              \* history: the branch of lines 291-303 that the last iteration of the for loop took
    success             \* what the last call of _send_data returned, until the caller drops it

vars == <<status, pc, serial_open, payload_beginning, payload_beginng,
          serial_bytes, serial_payloads, iter, via, binary_payload,
          decoded_payload, processed_payload, trace, emitted, origin, fed, taken,
          success>>

---------------------------------------------------------------------------
(* Bounds of the model *)

MaxChunks == 3          \* chunks read in one run of the poll loop's specification
MaxProcessChunks == 1   \* chunks read in one run of the specification of process_serial_payload

---------------------------------------------------------------------------
(* Text *)

CR == "CR"
LF == "LF"
XFF == "XFF"

AIVDM == <<"A", "I", "V", "D", "M">>
sync == <<"s", "y", "n", "c">>

\* Python's `sub in s` on strings
Contains(s, sub) ==
    \E k \in 1..(Len(s) - Len(sub) + 1) : SubSeq(s, k, k + Len(sub) - 1) = sub

\* bytes.decode(): the text of the bytes, or UnicodeDecodeError
DecodeFails(bytes) == \E k \in 1..Len(bytes) : bytes[k] = XFF

RECURSIVE Split(_)
\* str.split("\n")
Split(s) ==
    IF \A k \in 1..Len(s) : s[k] # LF
    THEN <<s>>
    ELSE LET k == CHOOSE j \in 1..Len(s) :
                    s[j] = LF /\ \A h \in 1..(j - 1) : s[h] # LF
         IN  <<SubSeq(s, 1, k - 1)>> \o Split(SubSeq(s, k + 1, Len(s)))


---------------------------------------------------------------------------
(* Numbers *)

Abs(n) == IF n < 0 THEN -n ELSE n

RECURSIVE GCD(_, _)
GCD(a, b) == IF b = 0 THEN a ELSE GCD(b, a % b)

\* the float n / d (d > 0), as the rational in lowest terms
Frac(n, d) == LET g == GCD(Abs(n), d) IN <<n \div g, d \div g>>

\* the float literal 0.0
Zero == Frac(0, 1)

---------------------------------------------------------------------------
(* Decoded messages: what pyais.decode returns, with the attributes that   *)
(* process_serial_payload reads.  msg_type stands for type(decoded).       *)

ClassA(t, m, la, lo, sp, co) ==
    [msg_type |-> t, mmsi |-> m, lat |-> la, lon |-> lo, speed |-> sp,
     course |-> co, second |-> 7, status |-> 0, turn |-> 0, accuracy |-> 1,
     heading |-> 90, maneuver |-> 0]

BaseStation(m, la, lo) ==
    [msg_type |-> 4, mmsi |-> m, lat |-> la, lon |-> lo, year |-> 2023,
     month |-> 5, day |-> 6, hour |-> 7, minute |-> 8, second |-> 9,
     accuracy |-> 1]

ClassB(m, la, lo, sp, co) ==
    [msg_type |-> 18, mmsi |-> m, lat |-> la, lon |-> lo, speed |-> sp,
     course |-> co, second |-> 7, accuracy |-> 1, heading |-> 90]

\* any other message type the decoder knows, e.g. type 5 or 21
OtherMessage(t, m) == [msg_type |-> t, mmsi |-> m]

\* the decoder's answers in the poll loop's specification
Messages == {ClassA(1, 111, 270, -804, 10, 45), OtherMessage(21, 444)}

\* the decoder's answers in the specification of process_serial_payload
RawAngles == {-804, 0, 270}
RawSpeeds == {0, 1, 10}
RawCourses == {0, 45}
AllMessages ==
    {ClassA(t, 111, la, lo, sp, co) :
        t \in {1, 2, 3}, la \in RawAngles, lo \in RawAngles,
        sp \in RawSpeeds, co \in RawCourses}
    \cup {BaseStation(222, la, lo) : la \in RawAngles, lo \in RawAngles}
    \cup {ClassB(333, la, lo, sp, co) :
            la \in RawAngles, lo \in RawAngles,
            sp \in RawSpeeds, co \in RawCourses}
    \cup {OtherMessage(t, 444) : t \in {5, 21}}

---------------------------------------------------------------------------
(* process_serial_payload, lines 175-252: the dict processed_payload, as   *)
(* the sequence of its <<key, value>> pairs in insertion order.            *)

\* lines 182-201
ClassARecord(d) ==
    << <<"mmsi", d.mmsi>>,
       <<"latitude", Frac(d.lat * 10000, 60)>>,
       <<"longitude", Frac(d.lon * 10000, 60)>>,
       <<"altitude", Zero>>,
       <<"horizontal_speed", Frac(d.speed * 1852, 3600)>>,
       <<"course", d.course>>,
       <<"vertical_speed", Zero>>,
       <<"second", d.second>>,
       <<"status", d.status>>,
       <<"turn", d.turn>>,
       <<"accuracy", d.accuracy>>,
       <<"heading", d.heading>>,
       <<"maneuver", d.maneuver>> >>

\* the Base Station record with the two coordinates exchanged
BaseStationRecordSwapped(d) ==
    << <<"mmsi", d.mmsi>>,
       <<"latitude", d.lon>>,
       <<"longitude", d.lat>>,
       <<"altitude", Zero>>,
       <<"horizontal_speed", Zero>>,
       <<"course", Zero>>,
       <<"vertical_speed", Zero>>,
       <<"year", d.year>>,
       <<"month", d.month>>,
       <<"day", d.day>>,
       <<"hour", d.hour>>,
       <<"minute", d.minute>>,
       <<"second", d.second>>,
       <<"accuracy", d.accuracy>> >>

\* lines 208-226
BaseStationRecord(d) ==
    << <<"mmsi", d.mmsi>>,
       <<"latitude", d.lat>>,
       <<"longitude", d.lon>>,
       <<"altitude", Zero>>,
       <<"horizontal_speed", Zero>>,
       <<"course", Zero>>,
       <<"vertical_speed", Zero>>,
       <<"year", d.year>>,
       <<"month", d.month>>,
       <<"day", d.day>>,
       <<"hour", d.hour>>,
       <<"minute", d.minute>>,
       <<"second", d.second>>,
       <<"accuracy", d.accuracy>> >>

\* a slip in the unit conversion: the factors of the speed exchanged
ClassBRecordSpeedInverted(d) ==
    << <<"mmsi", d.mmsi>>,
       <<"latitude", Frac(d.lat * 10000, 60)>>,
       <<"longitude", Frac(d.lon * 10000, 60)>>,
       <<"altitude", Zero>>,
       <<"horizontal_speed", Frac(d.speed * 3600, 1852)>>,
       <<"course", d.course>>,
       <<"vertical_speed", Zero>>,
       <<"second", d.second>>,
       <<"accuracy", d.accuracy>>,
       <<"heading", d.heading>> >>

\* lines 233-249
ClassBRecord(d) ==
    << <<"mmsi", d.mmsi>>,
       <<"latitude", Frac(d.lat * 10000, 60)>>,
       <<"longitude", Frac(d.lon * 10000, 60)>>,
       <<"altitude", Zero>>,
       <<"horizontal_speed", Frac(d.speed * 1852, 3600)>>,
       <<"course", d.course>>,
       <<"vertical_speed", Zero>>,
       <<"second", d.second>>,
       <<"accuracy", d.accuracy>>,
       <<"heading", d.heading>> >>

\* lines 175-252: processed_payload starts empty and the branch of the
\* message type fills it
Normalize(d) ==
    IF d.msg_type \in {1, 2, 3} THEN ClassARecord(d)
    ELSE IF d.msg_type = 4 THEN BaseStationRecord(d)
    ELSE IF d.msg_type = 18 THEN ClassBRecord(d)
    ELSE << >>

\* the branch at line 251 is taken: "Skipping message type" is logged
Skipped(d) == d.msg_type \notin {1, 2, 3, 4, 18}

\* dict lookup in a sequence of pairs
HasKey(p, key) == \E k \in 1..Len(p) : p[k][1] = key
Get(p, key) == p[CHOOSE k \in 1..Len(p) : p[k][1] = key][2]

\* a slip at line 166: the raw record without the sentence's text
RawDataWithoutText(text) == [type |-> "Binary AIS", payload |-> << >>]

\* the dict handed to _send_data at line 163
RawData(text) == [type |-> "Binary AIS", payload |-> text]

\* a slip at line 258: the decoded record without its fields
DecodedDataWithoutRecord(p) == [type |-> "Decoded AIS", payload |-> << >>]

\* the dict handed to _send_data at line 255; json.dumps keeps the pairs
DecodedData(p) == [type |-> "Decoded AIS", payload |-> p]

---------------------------------------------------------------------------
(* The byte source: what one read can return.  SentenceA and SentenceB are *)
(* complete sentences; the other chunks are fragments of them, a heartbeat *)
(* line and bytes that are not text.                                       *)

SentenceA == AIVDM \o <<"a", CR>>
SentenceB == AIVDM \o <<"b", CR>>

Chunks ==
    { SentenceA \o <<LF>>,                        \* one complete line
      AIVDM,                                      \* SentenceA cut after the marker
      <<"a", CR, LF>>,                            \* the rest of SentenceA
      AIVDM \o <<"b">>,                           \* SentenceB less its terminator
      sync \o <<CR, LF>>,                         \* a heartbeat line
      SentenceB \o <<LF>> \o SentenceA \o <<LF>>, \* two complete lines
      AIVDM \o sync,                              \* both markers, no terminator
      <<XFF>> }                                   \* not UTF-8

\* the chunks of the specification of process_serial_payload
ProcessChunks == { SentenceA \o <<LF>> }

\* what publish_to_topic can do: return True, return False, raise
SinkResults == {"ok", "fail", "raise"}

---------------------------------------------------------------------------
(* main, lines 290-308: the branch taken for one line of the chunk *)

\* a reassembler that remembers what it emitted and drops a repetition
BranchDedup(serial_payload, beginning) ==
    IF Contains(serial_payload, AIVDM) /\ Contains(serial_payload, <<CR>>)
    THEN IF \E k \in 1..Len(emitted) : emitted[k] = serial_payload
         THEN "discard"
         ELSE "complete"
    ELSE IF Contains(serial_payload, sync)
    THEN "sync"
    ELSE IF Contains(serial_payload, AIVDM)
    THEN "begin"
    ELSE IF beginning # << >>
    THEN "end"
    ELSE "discard"

\* the heartbeat test made only on lines without the AIS marker
BranchSyncOnly(serial_payload, beginning) ==
    IF Contains(serial_payload, AIVDM) /\ Contains(serial_payload, <<CR>>)
    THEN "complete"
    ELSE IF Contains(serial_payload, sync) /\ ~Contains(serial_payload, AIVDM)
    THEN "sync"
    ELSE IF Contains(serial_payload, AIVDM)
    THEN "begin"
    ELSE IF beginning # << >>
    THEN "end"
    ELSE "discard"

\* lines 291, 295, 299, 303: the tests in the order the code makes them
Branch(serial_payload, beginning) ==
    IF Contains(serial_payload, AIVDM) /\ Contains(serial_payload, <<CR>>)
    THEN "complete"
    ELSE IF Contains(serial_payload, sync)
    THEN "sync"
    ELSE IF Contains(serial_payload, AIVDM)
    THEN "begin"
    ELSE IF beginning # << >>
    THEN "end"
    ELSE "discard"

\* a loop that walks the lines of a chunk from the last to the first
LineIndexReversed(n, k) == n - k + 1

\* the for loop at line 290 visits the lines in list order: the k-th
\* iteration takes the k-th of the n lines
LineIndex(n, k) == k

---------------------------------------------------------------------------
(* History records *)

\* the sentence being processed is the last one emitted
Sid == Len(emitted)

Published(sid, data) ==
    [ev |-> "publish", sid |-> sid, type |-> data.type,
     payload |-> data.payload]

\* a call of the decoder: how it ended and, if it returned, what it returned
Decoded(sid, result, message) ==
    [ev |-> "decode", sid |-> sid, type |-> result, payload |-> message]

Logged(sid, level) ==
    [ev |-> "log", sid |-> sid, type |-> level, payload |-> << >>]

---------------------------------------------------------------------------
(* Initial state: main has run lines 270-275 *)

Init ==
    /\ status = "running"
    /\ pc = "top"
    /\ serial_open = TRUE
    /\ payload_beginning = << >>
    /\ payload_beginng = << >>
    /\ serial_bytes = << >>
    /\ serial_payloads = << >>
    /\ iter = 0
    /\ via = ""
    /\ binary_payload = << >>
    /\ decoded_payload = << >>
    /\ processed_payload = << >>
    /\ trace = << >>
    /\ emitted = << >>
    /\ origin = << >>
    /\ fed = << >>
    /\ taken = ""
    /\ success = ""

loop_locals == <<payload_beginning, payload_beginng, serial_bytes,
                 serial_payloads, iter>>
call_locals == <<via, binary_payload, decoded_payload, processed_payload>>
history == <<trace, emitted, origin, fed, taken>>

\* an exception leaves main: nothing catches it, the process ends
Crash ==
    /\ status' = "crashed"
    /\ UNCHANGED <<pc, serial_open>>

\* process_serial_payload returns to its call site; after the call at
\* line 305, line 308 clears payload_beginning
Return ==
    /\ pc' = "for"
    /\ payload_beginning' = IF via = "end" THEN << >> ELSE payload_beginning
    /\ via' = ""
    /\ binary_payload' = << >>
    /\ decoded_payload' = << >>
    /\ processed_payload' = << >>
    /\ UNCHANGED <<status, serial_open, payload_beginng, serial_bytes,
                   serial_payloads, iter>>

---------------------------------------------------------------------------
(* main, lines 276-320 *)

\* line 279: the availability query.  It can raise, and nothing catches
\* that; it can answer 0, and the cycle goes to line 311; or it answers a
\* positive count
InWaiting(answer, limit) ==
    /\ status = "running"
    /\ pc = "top"
    /\ answer = "bytes" => Len(fed) < limit
    /\ IF answer = "raise"
       THEN Crash
       ELSE /\ pc' = IF answer = "bytes" THEN "read" ELSE "pending"
            /\ UNCHANGED <<status, serial_open>>
    /\ success' = ""
    /\ UNCHANGED <<loop_locals, call_locals, history>>

\* line 281: the read returns a chunk
Read(chunk) ==
    /\ status = "running"
    /\ pc = "read"
    /\ serial_bytes' = chunk
    /\ fed' = Append(fed, chunk)
    /\ pc' = "split"
    /\ UNCHANGED <<status, serial_open, payload_beginning, payload_beginng,
                   serial_payloads, iter, call_locals, trace, emitted, origin,
                   taken, success>>

\* lines 282-286: the read raises; a warning is logged and `continue`
\* starts the next cycle at line 277
ReadFails ==
    /\ status = "running"
    /\ pc = "read"
    /\ pc' = "top"
    /\ UNCHANGED <<status, serial_open, loop_locals, call_locals, history,
                   success>>

\* line 289: bytes to text (UnicodeDecodeError is not caught), then the
\* lines of the text
SplitLines ==
    /\ status = "running"
    /\ pc = "split"
    /\ IF DecodeFails(serial_bytes)
       THEN /\ Crash
            /\ UNCHANGED <<serial_payloads, iter>>
       ELSE /\ serial_payloads' = Split(serial_bytes)
            /\ iter' = 0
            /\ pc' = "for"
            /\ UNCHANGED <<status, serial_open>>
    /\ UNCHANGED <<payload_beginning, payload_beginng, serial_bytes,
                   call_locals, history, success>>

\* lines 290-308: one iteration of the for loop, up to the call of
\* process_serial_payload if the branch makes one
ForLine ==
    /\ status = "running"
    /\ pc = "for"
    /\ iter < Len(serial_payloads)
    /\ LET index == LineIndex(Len(serial_payloads), iter + 1)
           serial_payload == serial_payloads[index]
           branch == Branch(serial_payload, payload_beginning)
           argument == IF branch = "complete"
                       THEN serial_payload
                       ELSE payload_beginning \o serial_payload
       IN  /\ iter' = iter + 1
           /\ taken' = branch
           /\ payload_beginng' =
                  IF branch = "begin" THEN serial_payload ELSE payload_beginng
           /\ IF branch \in {"complete", "end"}
              THEN /\ pc' = "send_raw"
                   /\ via' = branch
                   /\ binary_payload' = argument
                   /\ emitted' = Append(emitted, argument)
                   /\ origin' = Append(origin, <<Len(fed), index>>)
              ELSE UNCHANGED <<pc, via, binary_payload, emitted, origin>>
    /\ success' = ""
    /\ UNCHANGED <<status, serial_open, payload_beginning, serial_bytes,
                   serial_payloads, decoded_payload, processed_payload,
                   trace, fed>>

\* the for loop is over: the cycle goes on to line 311
ForDone ==
    /\ status = "running"
    /\ pc = "for"
    /\ iter = Len(serial_payloads)
    /\ pc' = "pending"
    /\ serial_bytes' = << >>
    /\ serial_payloads' = << >>
    /\ iter' = 0
    /\ success' = ""
    /\ UNCHANGED <<status, serial_open, payload_beginning, payload_beginng,
                   call_locals, history>>

\* lines 311-314: schedule.run_pending(), sleep, next cycle
RunPending ==
    /\ status = "running"
    /\ pc = "pending"
    /\ pc' = "top"
    /\ UNCHANGED <<status, serial_open, loop_locals, call_locals, history,
                   success>>

\* lines 316-320: KeyboardInterrupt anywhere in the try block
KeyboardInterrupt ==
    /\ status = "running"
    /\ serial_open' = FALSE
    /\ trace' = Append(trace, Logged(0, "error"))
    /\ status' = "exited"
    /\ UNCHANGED <<pc, loop_locals, call_locals, emitted, origin, fed, taken,
                   success>>

---------------------------------------------------------------------------
(* process_serial_payload, lines 153-263 *)

\* a raw publish that submits the record a second time when the sink
\* returns False
SendRawRetries(result) ==
    /\ status = "running"
    /\ pc = "send_raw"
    /\ trace' = IF result = "fail"
                THEN trace \o <<Published(Sid, RawData(binary_payload)),
                                Published(Sid, RawData(binary_payload))>>
                ELSE Append(trace, Published(Sid, RawData(binary_payload)))
    /\ IF result = "raise"
       THEN /\ Crash
            /\ UNCHANGED success
       ELSE /\ pc' = "decode"
            /\ success' = result
            /\ UNCHANGED <<status, serial_open>>
    /\ UNCHANGED <<loop_locals, call_locals, emitted, origin, fed, taken>>

\* lines 163-168: the raw publish
SendRaw(result) ==
    /\ status = "running"
    /\ pc = "send_raw"
    /\ trace' = Append(trace, Published(Sid, RawData(binary_payload)))
    /\ IF result = "raise"
       THEN /\ Crash
            /\ UNCHANGED success
       ELSE /\ pc' = "decode"
            /\ success' = result
            /\ UNCHANGED <<status, serial_open>>
    /\ UNCHANGED <<loop_locals, call_locals, emitted, origin, fed, taken>>

\* line 172: the decoder returns a message
Decode(message) ==
    /\ status = "running"
    /\ pc = "decode"
    /\ decoded_payload' = message
    /\ trace' = Append(trace, Decoded(Sid, "ok", message))
    /\ pc' = "normalize"
    /\ success' = ""
    /\ UNCHANGED <<status, serial_open, loop_locals, via, binary_payload,
                   processed_payload, emitted, origin, fed, taken>>

\* an except clause that also forgets the fragment in store
DecodeUnknownDropsPending ==
    /\ status = "running"
    /\ pc = "decode"
    /\ trace' = trace \o <<Decoded(Sid, "unknown", << >>), Logged(Sid, "error")>>
    /\ pc' = "for"
    /\ payload_beginning' = << >>
    /\ payload_beginng' = << >>
    /\ via' = ""
    /\ binary_payload' = << >>
    /\ decoded_payload' = << >>
    /\ processed_payload' = << >>
    /\ success' = ""
    /\ UNCHANGED <<status, serial_open, serial_bytes, serial_payloads, iter,
                   emitted, origin, fed, taken>>

\* lines 172, 262-263: the decoder raises UnknownMessageException; the
\* error is logged and the method returns
DecodeUnknown ==
    /\ status = "running"
    /\ pc = "decode"
    /\ trace' = trace \o <<Decoded(Sid, "unknown", << >>), Logged(Sid, "error")>>
    /\ Return
    /\ success' = ""
    /\ UNCHANGED <<emitted, origin, fed, taken>>

\* line 172: the decoder raises anything else (pyais raises
\* InvalidNMEAMessageException, MissingMultipartMessageException, ...);
\* line 262 does not catch it, nor does line 316
DecodeRaises ==
    /\ status = "running"
    /\ pc = "decode"
    /\ trace' = Append(trace, Decoded(Sid, "raise", << >>))
    /\ Crash
    /\ success' = ""
    /\ UNCHANGED <<loop_locals, call_locals, emitted, origin, fed, taken>>

\* lines 175-252: the dispatch on the message type
NormalizeStep ==
    /\ status = "running"
    /\ pc = "normalize"
    /\ processed_payload' = Normalize(decoded_payload)
    /\ trace' = IF Skipped(decoded_payload)
                THEN Append(trace, Logged(Sid, "info"))
                ELSE trace
    /\ pc' = "send_decoded"
    /\ UNCHANGED <<status, serial_open, loop_locals, via, binary_payload,
                   decoded_payload, emitted, origin, fed, taken, success>>

\* lines 255-260: the decoded publish, then the return
SendDecoded(result) ==
    /\ status = "running"
    /\ pc = "send_decoded"
    /\ trace' = Append(trace, Published(Sid, DecodedData(processed_payload)))
    /\ IF result = "raise"
       THEN /\ Crash
            /\ UNCHANGED <<loop_locals, call_locals, success>>
       ELSE /\ Return
            /\ success' = result
    /\ UNCHANGED <<emitted, origin, fed, taken>>

---------------------------------------------------------------------------

\* the program, with a byte source that delivers at most `limit` chunks,
\* each one of `chunks`, and a decoder that answers with one of `messages`
Program(chunks, limit, messages) ==
    \/ \E answer \in {"none", "bytes", "raise"} : InWaiting(answer, limit)
    \/ \E chunk \in chunks : Read(chunk)
    \/ ReadFails
    \/ SplitLines
    \/ ForLine
    \/ ForDone
    \/ RunPending
    \/ KeyboardInterrupt
    \/ \E result \in SinkResults : SendRaw(result)
    \/ \E message \in messages : Decode(message)
    \/ DecodeUnknown
    \/ DecodeRaises
    \/ NormalizeStep
    \/ \E result \in SinkResults : SendDecoded(result)

\* the poll loop and the reassembly of sentences
Next == Program(Chunks, MaxChunks, Messages)
Spec == Init /\ [][Next]_vars

\* process_serial_payload on every decoded message
NextProcess == Program(ProcessChunks, MaxProcessChunks, AllMessages)
SpecProcess == Init /\ [][NextProcess]_vars

TypeOK ==
    /\ status \in {"running", "exited", "crashed"}
    /\ pc \in {"top", "read", "split", "for", "pending", "send_raw",
               "decode", "normalize", "send_decoded"}
    /\ serial_open \in BOOLEAN
    /\ Len(origin) = Len(emitted)
    /\ success \in {"", "ok", "fail"}
    /\ taken \in {"", "complete", "sync", "begin", "end", "discard"}

---------------------------------------------------------------------------
(* Reading the history *)

Sentences == 1..Len(emitted)

\* places in the trace of the attempts made for sentence sid
RawAttempts(sid) ==
    {k \in 1..Len(trace) : /\ trace[k].ev = "publish"
                           /\ trace[k].sid = sid
                           /\ trace[k].type = "Binary AIS"}

DecodedAttempts(sid) ==
    {k \in 1..Len(trace) : /\ trace[k].ev = "publish"
                           /\ trace[k].sid = sid
                           /\ trace[k].type = "Decoded AIS"}

DecodeCalls(sid, result) ==
    {k \in 1..Len(trace) : /\ trace[k].ev = "decode"
                           /\ trace[k].sid = sid
                           /\ trace[k].type = result}

ErrorsLogged(sid) ==
    {k \in 1..Len(trace) : /\ trace[k].ev = "log"
                           /\ trace[k].sid = sid
                           /\ trace[k].type = "error"}

\* the thread is inside process_serial_payload (pc keeps its value when
\* the loop stops)
InCall == pc \in {"send_raw", "decode", "normalize", "send_decoded"}

\* the call of process_serial_payload for sentence sid has returned
Returned(sid) == sid \in Sentences /\ (sid < Len(emitted) \/ ~InCall)

\* every chunk read so far has been handled to its last line
ChunksDone == pc \in {"top", "pending"}

\* the grammar of the fragments, on whole chunks
IsBeginFragment(chunk) ==
    /\ Contains(chunk, AIVDM)
    /\ ~Contains(chunk, <<CR>>)
    /\ ~Contains(chunk, <<LF>>)
    /\ ~Contains(chunk, sync)

IsEndFragment(chunk) ==
    /\ ~Contains(chunk, AIVDM)
    /\ ~Contains(chunk, sync)
    /\ Len(chunk) >= 3
    /\ chunk[Len(chunk) - 1] = CR
    /\ chunk[Len(chunk)] = LF
    /\ ~Contains(SubSeq(chunk, 1, Len(chunk) - 2), <<LF>>)

\* a chunk less its final line feed
Line(chunk) == SubSeq(chunk, 1, Len(chunk) - 1)

\* the chunk is one complete sentence and its line feed
IsSentenceChunk(chunk) ==
    /\ Len(chunk) >= 2
    /\ chunk[Len(chunk)] = LF
    /\ ~Contains(Line(chunk), <<LF>>)
    /\ Contains(Line(chunk), AIVDM)
    /\ chunk[Len(chunk) - 1] = CR

SupportedTypes == {1, 2, 3, 4, 18}

---------------------------------------------------------------------------
(* The claims *)

\* C1 (split invariance): a complete sentence S fed as one chunk, and fed
\* as a begin-fragment chunk followed by an end-fragment chunk, is emitted
\* exactly once, as S, in both cases.
C1_SplitInvariance ==
    \A b \in Chunks, e \in Chunks :
        (IsBeginFragment(b) /\ IsEndFragment(e) /\ ChunksDone) =>
            /\ fed = <<b \o e>> => emitted = <<b \o Line(e)>>
            /\ fed = <<b, e>> => emitted = <<b \o Line(e)>>

\* C2: a "Decoded AIS" record is published for a sentence if and only if
\* the decoder returned a message of one of the supported types 1, 2, 3,
\* 4, 18.
C2_DecodedIffSupported ==
    \A sid \in Sentences :
        Returned(sid) =>
            (DecodedAttempts(sid) # {}
                <=> \E k \in DecodeCalls(sid, "ok") :
                        trace[k].payload.msg_type \in SupportedTypes)

\* C3: when the decoder fails on a sentence, with UnknownMessageException
\* or with any other fault, that sentence has exactly one raw publish, no
\* decoded publish and one error logged, and the loop is not stopped by it.
C3_DecodeFailureContained ==
    \A sid \in Sentences :
        (DecodeCalls(sid, "unknown") \cup DecodeCalls(sid, "raise") # {}) =>
            /\ Cardinality(RawAttempts(sid)) = 1
            /\ DecodedAttempts(sid) = {}
            /\ Cardinality(ErrorsLogged(sid)) = 1
            /\ status # "crashed"

\* C4: every emitted sentence has exactly one raw publish attempt, which
\* carries the sentence's text and comes before the decoder is called and
\* before any decoded publish, however the decoding, the normalizing and
\* the publishes end.  (The one sentence whose call has just begun has
\* none yet; a run that stopped at the raw publish by an exception of the
\* sink has made the attempt, one stopped there by the interrupt has not.)
C4_RawPublishedOnceFirst ==
    /\ \A sid \in Sentences :
        LET Mine(x) == x.sid = sid /\ x.ev \in {"decode", "publish"}
            calls == SelectSeq(trace, Mine)
        IN  IF sid = Len(emitted) /\ pc = "send_raw" /\ status # "crashed"
            THEN calls = << >>
            ELSE /\ calls # << >>
                 /\ calls[1].ev = "publish"
                 /\ calls[1].type = "Binary AIS"
                 /\ calls[1].payload = emitted[sid]
                 /\ \A j \in 2..Len(calls) :
                        ~(calls[j].ev = "publish"
                            /\ calls[j].type = "Binary AIS")
    /\ \A k \in 1..Len(trace) :
           trace[k].ev \in {"decode", "publish"} => trace[k].sid \in Sentences

\* a sentence whose decoding failed and a sentence whose decoding
\* succeeded have both been through the raw publish
C4_Witness ==
    /\ Len(emitted) = 2
    /\ pc = "for"
    /\ DecodeCalls(1, "unknown") # {}
    /\ DecodedAttempts(2) # {}
    /\ RawAttempts(1) # {} /\ RawAttempts(2) # {}

\* C5 (overwrite policy): begin-fragment A, then begin-fragment B, then
\* end-fragment E emit exactly one sentence, B + E.
C5_OverwritePolicy ==
    \A a \in Chunks, b \in Chunks, e \in Chunks :
        (IsBeginFragment(a) /\ IsBeginFragment(b) /\ IsEndFragment(e)
            /\ ChunksDone /\ fed = <<a, b, e>>)
            => emitted = <<b \o Line(e)>>

\* C6: the poll loop stops only by the external interrupt; no failure of
\* the byte source, of the conversion of a chunk to lines, of the decoder,
\* of the normalizer or of the sink stops it.
C6_OnlyInterruptStops == status \in {"running", "exited"}

\* the place of a line in the byte stream: chunk number, then line number
Before(p, q) == p[1] < q[1] \/ (p[1] = q[1] /\ p[2] < q[2])

\* C7: sentences are emitted in the order in which their last line stands
\* in the byte stream, within a chunk and across chunks, and every publish
\* of an earlier sentence (raw, then decoded) comes before every publish
\* of a later one: along the trace the publishes never go back to an
\* earlier sentence, and two publishes of one sentence that follow each
\* other are its raw and then its decoded publish.
C7_StreamOrder ==
    /\ \A s \in Sentences, t \in Sentences :
           s < t => Before(origin[s], origin[t])
    /\ LET IsPublish(x) == x.ev = "publish"
           publishes == SelectSeq(trace, IsPublish)
       IN  \A j \in 1..(Len(publishes) - 1) :
               /\ publishes[j].sid <= publishes[j + 1].sid
               /\ publishes[j].sid = publishes[j + 1].sid =>
                      (publishes[j].type = "Binary AIS"
                           /\ publishes[j + 1].type = "Decoded AIS")

\* three sentences, two from one chunk and one from the next, each with a
\* raw and a decoded publish
C7_Witness ==
    /\ Len(emitted) = 3
    /\ origin = << <<1, 1>>, <<1, 2>>, <<2, 1>> >>
    /\ \A sid \in Sentences :
           RawAttempts(sid) # {} /\ DecodedAttempts(sid) # {}

\* C8 (guaranteed release): in every state in which the poll loop has
\* stopped, the byte source has been closed.
C8_ClosedWhenStopped == status # "running" => ~serial_open

\* C9 (no dedup): the same complete sentence in two separate chunks is
\* emitted twice, each time with its own raw publish carrying it.
C9_NoDedup ==
    \A c \in Chunks :
        (IsSentenceChunk(c) /\ fed = <<c, c>> /\ ChunksDone) =>
            /\ emitted = <<Line(c), Line(c)>>
            /\ \A sid \in Sentences :
                   /\ Cardinality(RawAttempts(sid)) = 1
                   /\ \A k \in RawAttempts(sid) : trace[k].payload = Line(c)

\* the same sentence has been read twice and handled twice
C9_Witness ==
    /\ fed = <<SentenceA \o <<LF>>, SentenceA \o <<LF>>>>
    /\ ChunksDone
    /\ emitted = <<SentenceA, SentenceA>>
    /\ RawAttempts(1) # {} /\ RawAttempts(2) # {}

\* the decoded message of sentence sid, when the decoder returned one
MessageOf(sid) ==
    trace[CHOOSE k \in DecodeCalls(sid, "ok") : TRUE].payload

\* the rational q is n * a / b
IsProduct(q, n, a, b) == q[2] > 0 /\ q[1] * b = n * a * q[2]

\* C10: for every decoded Class A (types 1, 2, 3) and Class B (type 18)
\* message the published record has latitude = lat * 10000 / 60,
\* longitude = lon * 10000 / 60, horizontal_speed = speed * 1852 / 3600
\* and the decoded course unchanged.
C10_PositionReportUnits ==
    \A sid \in Sentences :
        (DecodeCalls(sid, "ok") # {}
            /\ MessageOf(sid).msg_type \in {1, 2, 3, 18}
            /\ (Returned(sid) \/ DecodedAttempts(sid) # {})) =>
            /\ Cardinality(DecodedAttempts(sid)) = 1
            /\ \A k \in DecodedAttempts(sid) :
                LET record == trace[k].payload
                    message == MessageOf(sid)
                IN  /\ IsProduct(Get(record, "latitude"), message.lat, 10000, 60)
                    /\ IsProduct(Get(record, "longitude"), message.lon, 10000, 60)
                    /\ IsProduct(Get(record, "horizontal_speed"),
                                 message.speed, 1852, 3600)
                    /\ Get(record, "course") = message.course

\* the example of the unit conversion: lat 270, speed 10 knots and course
\* 45 give latitude 45000, speed 463/90 m/s and course 45, for a Class B
\* report.
C10_Witness ==
    \E sid \in Sentences :
        /\ DecodeCalls(sid, "ok") # {}
        /\ MessageOf(sid).msg_type = 18
        /\ MessageOf(sid).lat = 270
        /\ MessageOf(sid).lon = -804
        /\ MessageOf(sid).speed = 10
        /\ MessageOf(sid).course = 45
        /\ \E k \in DecodedAttempts(sid) :
               /\ Get(trace[k].payload, "latitude") = <<45000, 1>>
               /\ Get(trace[k].payload, "longitude") = <<-134000, 1>>
               /\ Get(trace[k].payload, "horizontal_speed") = <<463, 90>>
               /\ Get(trace[k].payload, "course") = 45

IsCompleteLine(line) == Contains(line, AIVDM) /\ Contains(line, <<CR>>)

\* the complete lines of each chunk that the byte source can deliver; a
\* chunk that is not text has none
CompleteLinesOf ==
    [chunk \in Chunks \cup ProcessChunks |->
        IF DecodeFails(chunk) THEN << >>
        ELSE SelectSeq(Split(chunk), IsCompleteLine)]

RECURSIVE CompleteLines(_)
\* the complete lines of a sequence of chunks, in the order read
CompleteLines(chunks) ==
    IF chunks = << >> THEN << >>
    ELSE CompleteLinesOf[Head(chunks)] \o CompleteLines(Tail(chunks))

\* the decoder's answers of the run, in the order given
IsAnswer(e) == e.ev = "decode"
Answers == SelectSeq(trace, IsAnswer)

RECURSIVE Output(_, _)
\* the records that the complete lines and the decoder's answers to them
\* determine: per line the raw record, then the record of the answer
Output(lines, answers) ==
    IF lines = << >> THEN << >>
    ELSE <<[type |-> "Binary AIS", payload |-> Head(lines)]>>
         \o (IF answers # << >> /\ Head(answers).type = "ok"
              THEN <<[type |-> "Decoded AIS",
                      payload |-> Normalize(Head(answers).payload)]>>
              ELSE << >>)
         \o Output(Tail(lines), IF answers = << >> THEN << >> ELSE Tail(answers))

\* the records handed to the sink so far, without the bookkeeping
IsPublish(e) == e.ev = "publish"
Records ==
    LET p == SelectSeq(trace, IsPublish)
    IN  [k \in 1..Len(p) |-> [type |-> p[k].type, payload |-> p[k].payload]]

IsPrefix(a, b) == Len(a) <= Len(b) /\ a = SubSeq(b, 1, Len(a))

\* C12: the published output is a function of the input: the records
\* handed to the sink are, in order, the records that Output computes from
\* the chunks read and the decoder's answers alone; a run that is stopped
\* or in the middle of a chunk has published a prefix of them.  Two runs
\* with the same chunks and outcomes therefore publish the same records.
C12_OutputIsFunctionOfInput ==
    LET expected == Output(CompleteLines(fed), Answers)
    IN  IF status = "running" /\ ChunksDone
        THEN Records = expected
        ELSE IsPrefix(Records, expected)

\* two chunks with three complete lines between them are read to the end
\* and five records are published.
C12_Witness ==
    /\ status = "running"
    /\ ChunksDone
    /\ Len(fed) = 2
    /\ Len(CompleteLines(fed)) = 3
    /\ Len(Records) = 5
    /\ Records = Output(CompleteLines(fed), Answers)

\* C13: the due-time check of the periodic tasks runs once in every poll
\* cycle and every cycle ends with the brief yield: the loop comes back to
\* its top only from lines 311-314, in a cycle whose read fails too.
C13_EveryCycleRunsPending ==
    [][(pc # "top" /\ pc' = "top") => pc = "pending"]_vars

\* C14: a complete line is emitted at once and leaves the pending buffer as
\* it was: a begin-fragment, then a complete line, then an end-fragment
\* give the complete line and then the sentence joined from the fragments.
C14_CompleteLineKeepsPending ==
    \A b \in Chunks, c \in Chunks, e \in Chunks :
        (/\ IsBeginFragment(b) /\ IsSentenceChunk(c) /\ IsEndFragment(e)
         /\ fed = <<b, c, e>>
         /\ ChunksDone
         /\ status = "running") =>
            emitted = <<Line(c), b \o Line(e)>>

\* a step of the for loop that takes up the next line
TakesLine == status = "running" /\ pc = "for" /\ iter' = iter + 1

\* the line that the k-th iteration of the for loop takes up
LineOf(k) == serial_payloads[LineIndex(Len(serial_payloads), k)]

\* nothing is emitted, nothing is published or logged, the pending buffer
\* stays and the loop goes on to the next line
DiscardedQuietly == UNCHANGED <<pc, emitted, trace, payload_beginning>>

\* C15 as stated: a line that is not a complete sentence is discarded by
\* the heartbeat rule exactly when it carries the sync marker and does not
\* carry the AIS marker; the discard emits nothing, publishes nothing and
\* leaves the pending buffer unchanged.
C15_HeartbeatOnlyWithoutMarker ==
    [][TakesLine =>
        /\ ~IsCompleteLine(LineOf(iter')) =>
               (taken' = "sync" <=>
                   (Contains(LineOf(iter'), sync)
                        /\ ~Contains(LineOf(iter'), AIVDM)))
        /\ taken' = "sync" => DiscardedQuietly]_vars

\* C15 amended: a line that is not a complete sentence is discarded by the
\* heartbeat rule exactly when it carries the sync marker, with or without
\* the AIS marker; the discard emits nothing, publishes nothing and leaves
\* the pending buffer unchanged.
C15_HeartbeatDiscard ==
    [][TakesLine =>
        /\ ~IsCompleteLine(LineOf(iter')) =>
               (taken' = "sync" <=> Contains(LineOf(iter'), sync))
        /\ taken' = "sync" => DiscardedQuietly]_vars

\* after a sentence was emitted, a line with both markers and no
\* terminator has been discarded by the heartbeat rule.
C15_Witness ==
    /\ status = "running"
    /\ pc = "for"
    /\ iter = 1
    /\ taken = "sync"
    /\ Contains(LineOf(1), sync)
    /\ Contains(LineOf(1), AIVDM)
    /\ ~IsCompleteLine(LineOf(1))
    /\ Len(emitted) = 1
    /\ payload_beginning = << >>

\* C16: with a fragment pending, a line with neither marker is consumed as
\* the end-fragment: after a begin-fragment has been taken up it is the
\* pending buffer; the line after it that has neither marker emits the one
\* sentence joined from the two and clears the buffer; a further such line
\* is discarded.
C16_EndFragmentConsumed ==
    /\ (status = "running" /\ pc = "for" /\ iter >= 1
            /\ taken = "begin") => payload_beginning = LineOf(iter)
    /\ \A b \in Chunks, e \in Chunks :
           (/\ IsBeginFragment(b) /\ IsEndFragment(e)
            /\ ChunksDone
            /\ status = "running"
            /\ fed \in {<<b, e>>, <<b, e, e>>}) =>
               /\ emitted = <<b \o Line(e)>>
               /\ payload_beginning = << >>

\* the step hands exactly one record to the sink, of the given type and
\* for the sentence in process
PublishesOne(type) ==
    /\ Len(trace') = Len(trace) + 1
    /\ trace'[Len(trace')].ev = "publish"
    /\ trace'[Len(trace')].type = type
    /\ trace'[Len(trace')].sid = Sid

\* C17: a publish that returns failure is not retried and has no other
\* effect: every record is handed to the sink at most once; a raw publish
\* that returns False hands over the one record and goes on to the decode
\* of the same sentence, a decoded publish that returns False hands over
\* the one record and goes back to the for loop, both leaving the loop's
\* and the call's variables as a publish that returns True leaves them.
C17_FailedPublishIgnored ==
    /\ [](\A sid \in Sentences :
            /\ Cardinality(RawAttempts(sid)) <= 1
            /\ Cardinality(DecodedAttempts(sid)) <= 1)
    /\ [][(pc = "send_raw" /\ success' = "fail") =>
            /\ PublishesOne("Binary AIS")
            /\ pc' = "decode"
            /\ UNCHANGED <<status, serial_open, loop_locals, call_locals,
                           emitted>>]_vars
    /\ [][(pc = "send_decoded" /\ success' = "fail") =>
            /\ PublishesOne("Decoded AIS")
            /\ pc' = "for"
            /\ UNCHANGED <<status, serial_open, payload_beginng,
                           serial_payloads, iter, emitted>>
            /\ payload_beginning' =
                   IF via = "end" THEN << >> ELSE payload_beginning]_vars
    /\ [][(success = "fail" /\ pc = "decode" /\ status' = "running") =>
            /\ Len(trace') > Len(trace)
            /\ trace'[Len(trace) + 1].ev = "decode"
            /\ trace'[Len(trace) + 1].sid = Sid]_vars

\* the raw publish of the second sentence has returned False, the record
\* was handed over once and the call stands before the decode.
C17_Witness ==
    /\ status = "running"
    /\ pc = "decode"
    /\ success = "fail"
    /\ Len(emitted) = 2
    /\ Cardinality(RawAttempts(2)) = 1
    /\ DecodeCalls(2, "ok") = {}

\* what the call in process leaves in payload_beginning when every step of
\* it succeeds: the call at line 305 is followed by line 308
SuccessLeaves == IF via = "end" THEN << >> ELSE payload_beginning

\* C18: failures do not touch the reassembly: a cycle whose read fails
\* leaves payload_beginning and the fragment stored at line 301 as they
\* were, and every step of process_serial_payload that ends the call, by a
\* return after a failure or by an exception as by a return after success,
\* leaves payload_beginning as the successful call leaves it and the stored
\* fragment untouched.
C18_FailuresKeepPending ==
    /\ [][(pc = "read" /\ pc' = "top") =>
            UNCHANGED <<payload_beginning, payload_beginng>>]_vars
    /\ [][InCall =>
            /\ payload_beginng' = payload_beginng
            /\ payload_beginning' =
                   IF pc' = "for" \/ status' = "crashed"
                   THEN SuccessLeaves
                   ELSE payload_beginning]_vars

\* a begin-fragment was stored by line 301, the decoder has then failed on
\* a complete sentence and the call has returned: the stored fragment and
\* payload_beginning are as before the call.
C18_Witness ==
    /\ status = "running"
    /\ pc = "for"
    /\ payload_beginng = AIVDM
    /\ payload_beginning = << >>
    /\ Len(fed) = 2
    /\ Len(emitted) = 1
    /\ DecodeCalls(1, "unknown") # {}
    /\ DecodedAttempts(1) = {}

\* the seven fields of the canonical record
CanonicalFields ==
    {"mmsi", "latitude", "longitude", "altitude", "horizontal_speed",
     "course", "vertical_speed"}

\* C19: every "Decoded AIS" record handed to the sink has all seven
\* canonical fields, with altitude = 0.0 and vertical_speed = 0.0; no
\* empty or partial record is published.
C19_CanonicalRecord ==
    \A k \in 1..Len(trace) :
        (trace[k].ev = "publish" /\ trace[k].type = "Decoded AIS") =>
            /\ \A field \in CanonicalFields : HasKey(trace[k].payload, field)
            /\ Get(trace[k].payload, "altitude") = Zero
            /\ Get(trace[k].payload, "vertical_speed") = Zero

============================================================================
